---- MODULE Spec2Model ----
(***************************************************************************)
(* Model of the Solana vanity address generator (src/src/main.rs):         *)
(* VanityMatcher (new, matches), the worker loop generate_vanity_address,  *)
(* the verbose reporting thread and main.                                  *)
(*                                                                         *)
(* Strings are sequences of one-character strings.  Option<T> is a record  *)
(* [some, val].  Atomics are modelled as sequentially consistent cells,    *)
(* one atomic operation or mutex operation per step; thread-local work     *)
(* (the matcher test, the comparison with target_count, printing) is part  *)
(* of the step of the shared operation next to it.                         *)
(***************************************************************************)
EXTENDS Integers, Sequences, FiniteSets, TLC

VARIABLES
    args,            \* parsed command line (Args)
    mainpc,          \* position of main
    matcher,         \* Result<VanityMatcher, String> of VanityMatcher::new
    num_threads,     \* main's num_threads
    found,           \* AtomicBool  (the spec's "terminated")
    attempts,        \* AtomicU64
    results,         \* Mutex<Vec<(Keypair, String)>>: the pubkey strings
    found_count,     \* AtomicUsize
    lock,            \* holder of the results mutex: 0 free, w worker, MainId
    wpc,             \* position of each parallel iteration
    pubkey,          \* each worker's local keypair/pubkey
    current_count,   \* each worker's local current_count
    generated,       \* number of Keypair::new() calls made so far
    vpc,             \* position of the verbose reporting thread
    current_attempts,\* reporting thread's local
    sample,          \* the status line on the terminal: <<attempts, found>>,
                     \* or NotKept when the terminal is not modelled
    total_attempts,  \* main's local read of attempts
    outcome,         \* what main printed / how it exited
    t_pc,            \* matcher harness: position
    t_address,       \* matcher harness: the address given to matches
    t_matched,       \* matcher harness: the value matches returned
    t_again          \* matcher harness: new applied to the stored pattern

vars == <<args, mainpc, matcher, num_threads, found, attempts, results,
          found_count, lock, wpc, pubkey, current_count, generated, vpc,
          current_attempts, sample, total_attempts, outcome,
          t_pc, t_address, t_matched, t_again>>

runvars == <<mainpc, num_threads, found, attempts, results,
             found_count, lock, wpc, pubkey, current_count, generated, vpc,
             current_attempts, sample, total_attempts, outcome>>

tvars == <<t_pc, t_address, t_matched, t_again>>

----------------------------------------------------------------------------
(* Bounds *)

MaxThreads == 2
MaxCount == 2
MaxAttempts == 3
HostParallelism == 1
MaxPatLen == 2
MaxAddrLen == 2
MaxSampledThreads == 1

----------------------------------------------------------------------------
(* Strings and options *)

None == [some |-> FALSE, val |-> <<>>]
Some(s) == [some |-> TRUE, val |-> s]
NoThreads == [some |-> FALSE, val |-> 0]

Strings(S, n) == UNION {[1..k -> S] : k \in 0..n}

UpperLetters == <<"A","B","C","D","E","F","G","H","I","J","K","L","M",
                  "N","O","P","Q","R","S","T","U","V","W","X","Y","Z">>
LowerLetters == <<"a","b","c","d","e","f","g","h","i","j","k","l","m",
                  "n","o","p","q","r","s","t","u","v","w","x","y","z">>

char_to_lowercase(c) ==
    IF \E i \in 1..Len(UpperLetters) : UpperLetters[i] = c
    THEN LowerLetters[CHOOSE i \in 1..Len(UpperLetters) : UpperLetters[i] = c]
    ELSE c

to_lowercase(s) == [i \in 1..Len(s) |-> char_to_lowercase(s[i])]

starts_with(s, p) == Len(p) <= Len(s) /\ SubSeq(s, 1, Len(p)) = p

ends_with(s, p) ==
    Len(p) <= Len(s) /\ SubSeq(s, Len(s) - Len(p) + 1, Len(s)) = p

----------------------------------------------------------------------------
(* VanityMatcher *)

base58_chars ==
    <<"1","2","3","4","5","6","7","8","9",
      "A","B","C","D","E","F","G","H","J","K","L","M","N","P","Q","R","S",
      "T","U","V","W","X","Y","Z",
      "a","b","c","d","e","f","g","h","i","j","k","m","n","o","p","q","r",
      "s","t","u","v","w","x","y","z">>

base58_contains(c) == \E i \in 1..Len(base58_chars) : base58_chars[i] = c

Ok(p, s, cs) == [ok |-> TRUE, prefix |-> p, suffix |-> s,
                 case_sensitive |-> cs, err |-> <<>>]
Err(e) == [ok |-> FALSE, prefix |-> None, suffix |-> None,
           case_sensitive |-> FALSE, err |-> e]
NoMatcher == Err(<<>>)

FirstIllegal(p) ==
    p[CHOOSE i \in 1..Len(p) :
        /\ ~base58_contains(p[i])
        /\ \A j \in 1..(i-1) : base58_contains(p[j])]

\* The `if let Some(p) = prefix` block: an error message, or the stored value.
validated_prefix(prefix, case_sensitive) ==
    IF prefix.some
    THEN IF prefix.val = <<>>
         THEN [err |-> <<"Prefix cannot be empty">>, val |-> None]
         ELSE IF \E i \in 1..Len(prefix.val) : ~base58_contains(prefix.val[i])
         THEN [err |-> <<"Invalid Base58 character in prefix",
                         FirstIllegal(prefix.val)>>, val |-> None]
         ELSE [err |-> <<>>,
               val |-> Some(IF case_sensitive THEN prefix.val
                            ELSE to_lowercase(prefix.val))]
    ELSE [err |-> <<>>, val |-> None]

\* validated_suffix without the is_empty test.
validated_suffix_no_empty_test(suffix, case_sensitive) ==
    IF suffix.some
    THEN IF \E i \in 1..Len(suffix.val) : ~base58_contains(suffix.val[i])
         THEN [err |-> <<"Invalid Base58 character in suffix",
                         FirstIllegal(suffix.val)>>, val |-> None]
         ELSE [err |-> <<>>,
               val |-> Some(IF case_sensitive THEN suffix.val
                            ELSE to_lowercase(suffix.val))]
    ELSE [err |-> <<>>, val |-> None]

validated_suffix(suffix, case_sensitive) ==
    IF suffix.some
    THEN IF suffix.val = <<>>
         THEN [err |-> <<"Suffix cannot be empty">>, val |-> None]
         ELSE IF \E i \in 1..Len(suffix.val) : ~base58_contains(suffix.val[i])
         THEN [err |-> <<"Invalid Base58 character in suffix",
                         FirstIllegal(suffix.val)>>, val |-> None]
         ELSE [err |-> <<>>,
               val |-> Some(IF case_sensitive THEN suffix.val
                            ELSE to_lowercase(suffix.val))]
    ELSE [err |-> <<>>, val |-> None]

VanityMatcher_new(prefix, suffix, case_sensitive) ==
    IF ~prefix.some /\ ~suffix.some
    THEN Err(<<"At least one of --prefix or --suffix must be specified">>)
    ELSE LET vp == validated_prefix(prefix, case_sensitive)
             vs == validated_suffix(suffix, case_sensitive)
         IN  IF vp.err # <<>> THEN Err(vp.err)
             ELSE IF vs.err # <<>> THEN Err(vs.err)
             ELSE Ok(vp.val, vs.val, case_sensitive)

\* compare_address that never folds the address.
compare_address_no_fold(self, address) == address

compare_address(self, address) ==
    IF self.case_sensitive THEN address ELSE to_lowercase(address)

matches(self, address) ==
    LET ca == compare_address(self, address)
        m1 == IF self.prefix.some THEN starts_with(ca, self.prefix.val)
              ELSE TRUE
    IN  IF self.suffix.some THEN m1 /\ ends_with(ca, self.suffix.val)
        ELSE m1

----------------------------------------------------------------------------
(* Inputs *)

RunPrefixes == {None, Some(<<"A">>), Some(<<"l">>)}
RunSuffixes == {None, Some(<<>>)}

\* Identifiers the keypair source can return.
Pubkeys == {<<"A", "b">>, <<"a", "b">>, <<"b", "c">>}

ThreadArgs == {NoThreads} \cup {[some |-> TRUE, val |-> n] : n \in 0..MaxThreads}

RunArgs == [prefix : RunPrefixes, suffix : RunSuffixes, count : 0..MaxCount,
            threads : ThreadArgs, case_sensitive : BOOLEAN, verbose : BOOLEAN]

PatChars == {"A", "a", "L", "l", "0", "O"}
AddrChars == {"A", "a", "L", "b"}
PatOptions == {None} \cup {Some(s) : s \in Strings(PatChars, MaxPatLen)}
TestAddresses == Strings(AddrChars, MaxAddrLen)

TestArgs == [prefix : PatOptions, suffix : PatOptions, count : {1},
             threads : {NoThreads}, case_sensitive : BOOLEAN, verbose : {FALSE}]

SampledArgs == [prefix : {Some(<<"A">>)}, suffix : {None}, count : 1..MaxCount,
                threads : {[some |-> TRUE, val |-> n] : n \in 1..MaxSampledThreads},
                case_sensitive : {TRUE}, verbose : {TRUE}]

\* The command lines of RunArgs with exact-case matching.
FairArgs == {a \in RunArgs : a.case_sensitive}

NotKept == <<>>

Workers == 1..MaxThreads
MainId == MaxThreads + 1

----------------------------------------------------------------------------
(* Helpers of the worker loop *)

num_cpus_get == HostParallelism

fetch_add(v, n) == v + n

\* the comparison strict: > instead of >=.
reached_target_strict(count, target_count) == count > target_count

\* the comparison off by one.
reached_target_early(count, target_count) == count + 1 >= target_count

reached_target(count, target_count) == count >= target_count

push(vec, x) == Append(vec, x)

----------------------------------------------------------------------------
(* Initial state *)

RunIdle ==
    /\ num_threads = 0
    /\ found = FALSE
    /\ attempts = 0
    /\ results = <<>>
    /\ found_count = 0
    /\ lock = 0
    /\ wpc = [w \in Workers |-> "idle"]
    /\ pubkey = [w \in Workers |-> <<>>]
    /\ current_count = [w \in Workers |-> 0]
    /\ generated = 0
    /\ vpc = "none"
    /\ current_attempts = 0
    /\ total_attempts = 0
    /\ outcome = "none"

Init ==
    /\ args \in RunArgs
    /\ sample = NotKept
    /\ mainpc = "validate_count"
    /\ matcher = NoMatcher
    /\ RunIdle
    /\ t_pc = "off"
    /\ t_address = <<>>
    /\ t_matched = FALSE
    /\ t_again = NoMatcher

----------------------------------------------------------------------------
(* main *)

\* main without the count test.
m_validate_count_no_test ==
    /\ mainpc = "validate_count"
    /\ mainpc' = "new_matcher"
    /\ UNCHANGED <<args, sample, matcher, num_threads, found, attempts, results,
                   found_count, lock, wpc, pubkey, current_count, generated,
                   vpc, current_attempts, total_attempts, outcome, tvars>>

m_validate_count ==
    /\ mainpc = "validate_count"
    /\ IF args.count = 0
       THEN mainpc' = "exit1" /\ outcome' = "error"
       ELSE mainpc' = "new_matcher" /\ UNCHANGED outcome
    /\ UNCHANGED <<args, sample, matcher, num_threads, found, attempts, results,
                   found_count, lock, wpc, pubkey, current_count, generated,
                   vpc, current_attempts, total_attempts, tvars>>

m_new_matcher ==
    /\ mainpc = "new_matcher"
    /\ matcher' = VanityMatcher_new(args.prefix, args.suffix, args.case_sensitive)
    /\ IF matcher'.ok
       THEN mainpc' = "build_pool" /\ UNCHANGED outcome
       ELSE mainpc' = "exit1" /\ outcome' = "error"
    /\ UNCHANGED <<args, sample, num_threads, found, attempts, results,
                   found_count, lock, wpc, pubkey, current_count, generated,
                   vpc, current_attempts, total_attempts, tvars>>

m_build_pool ==
    /\ mainpc = "build_pool"
    /\ num_threads' = IF args.threads.some THEN args.threads.val ELSE num_cpus_get
    /\ mainpc' = "spawn_verbose"
    /\ UNCHANGED <<args, sample, matcher, found, attempts, results,
                   found_count, lock, wpc, pubkey, current_count, generated,
                   vpc, current_attempts, total_attempts,
                   outcome, tvars>>

m_spawn_verbose ==
    /\ mainpc = "spawn_verbose"
    /\ vpc' = IF args.verbose THEN "loop" ELSE "none"
    /\ mainpc' = "par_iter"
    /\ UNCHANGED <<args, sample, matcher, num_threads, found, attempts, results,
                   found_count, lock, wpc, pubkey, current_count, generated,
                   current_attempts, total_attempts,
                   outcome, tvars>>

m_par_iter ==
    /\ mainpc = "par_iter"
    /\ wpc' = [w \in Workers |-> IF w <= num_threads THEN "loop" ELSE "idle"]
    /\ mainpc' = "for_each"
    /\ UNCHANGED <<args, sample, matcher, num_threads, found, attempts, results,
                   found_count, lock, pubkey, current_count, generated,
                   vpc, current_attempts, total_attempts,
                   outcome, tvars>>

AllWorkersDone == \A w \in Workers : w <= num_threads => wpc[w] = "done"

\* for_each returning without waiting for the iterations.
m_for_each_no_wait ==
    /\ mainpc = "for_each"
    /\ mainpc' = "join_verbose"
    /\ UNCHANGED <<args, sample, matcher, num_threads, found, attempts, results,
                   found_count, lock, wpc, pubkey, current_count, generated,
                   vpc, current_attempts, total_attempts,
                   outcome, tvars>>

m_for_each_return ==
    /\ mainpc = "for_each"
    /\ AllWorkersDone
    /\ mainpc' = "join_verbose"
    /\ UNCHANGED <<args, sample, matcher, num_threads, found, attempts, results,
                   found_count, lock, wpc, pubkey, current_count, generated,
                   vpc, current_attempts, total_attempts,
                   outcome, tvars>>

m_join_verbose ==
    /\ mainpc = "join_verbose"
    /\ vpc \in {"none", "done"}
    /\ mainpc' = "load_attempts"
    /\ UNCHANGED <<args, sample, matcher, num_threads, found, attempts, results,
                   found_count, lock, wpc, pubkey, current_count, generated,
                   vpc, current_attempts, total_attempts,
                   outcome, tvars>>

m_load_attempts ==
    /\ mainpc = "load_attempts"
    /\ total_attempts' = attempts
    /\ mainpc' = "lock_results"
    /\ UNCHANGED <<args, sample, matcher, num_threads, found, attempts, results,
                   found_count, lock, wpc, pubkey, current_count, generated,
                   vpc, current_attempts, outcome, tvars>>

m_lock_results ==
    /\ mainpc = "lock_results"
    /\ lock = 0
    /\ lock' = MainId
    /\ mainpc' = "report"
    /\ UNCHANGED <<args, sample, matcher, num_threads, found, attempts, results,
                   found_count, wpc, pubkey, current_count, generated,
                   vpc, current_attempts, total_attempts,
                   outcome, tvars>>

m_report ==
    /\ mainpc = "report"
    /\ outcome' = IF results # <<>> THEN "found" ELSE "interrupted"
    /\ lock' = 0
    /\ mainpc' = "done"
    /\ UNCHANGED <<args, sample, matcher, num_threads, found, attempts, results,
                   found_count, wpc, pubkey, current_count, generated,
                   vpc, current_attempts, total_attempts, tvars>>

----------------------------------------------------------------------------
(* generate_vanity_address, one parallel iteration w *)

\* the loop left only once the count has gone past the target.
w_load_found_past_target(w) ==
    /\ wpc[w] = "loop"
    /\ wpc' = [wpc EXCEPT ![w] = IF found /\ found_count > args.count
                                 THEN "done" ELSE "keypair"]
    /\ UNCHANGED <<args, sample, mainpc, matcher, num_threads, found, attempts, results,
                   found_count, lock, pubkey, current_count, generated,
                   vpc, current_attempts, total_attempts, outcome, tvars>>

\* Keypairs still allowed within MaxAttempts, counting the iterations that
\* have passed the loop test and are about to generate one.
BudgetLeft ==
    generated + Cardinality({v \in Workers : wpc[v] = "keypair"}) < MaxAttempts

\* found.load(): leave the loop when true, enter the body otherwise (the
\* body is entered only while the model's budget of keypairs lasts).
w_load_found(w) ==
    /\ wpc[w] = "loop"
    /\ found \/ BudgetLeft
    /\ wpc' = [wpc EXCEPT ![w] = IF found THEN "done" ELSE "keypair"]
    /\ UNCHANGED <<args, sample, mainpc, matcher, num_threads, found, attempts, results,
                   found_count, lock, pubkey, current_count, generated,
                   vpc, current_attempts, total_attempts,
                   outcome, tvars>>

w_keypair_new(w) ==
    /\ wpc[w] = "keypair"
    /\ \E k \in Pubkeys : pubkey' = [pubkey EXCEPT ![w] = k]
    /\ generated' = generated + 1
    /\ wpc' = [wpc EXCEPT ![w] = "attempts"]
    /\ UNCHANGED <<args, sample, mainpc, matcher, num_threads, found, attempts, results,
                   found_count, lock, current_count,
                   vpc, current_attempts, total_attempts,
                   outcome, tvars>>

\* attempts counted only for candidates that do not match.
w_attempts_misses_only(w) ==
    /\ wpc[w] = "attempts"
    /\ attempts' = IF matches(matcher, pubkey[w]) THEN attempts
                   ELSE fetch_add(attempts, 1)
    /\ IF matches(matcher, pubkey[w])
       THEN wpc' = [wpc EXCEPT ![w] = "lock"] /\ UNCHANGED pubkey
       ELSE /\ wpc' = [wpc EXCEPT ![w] = "loop"]
            /\ pubkey' = [pubkey EXCEPT ![w] = <<>>]
    /\ UNCHANGED <<args, sample, mainpc, matcher, num_threads, found, results,
                   found_count, lock, current_count, generated,
                   vpc, current_attempts, total_attempts,
                   outcome, tvars>>

\* the test negated: if !matcher.matches(&pubkey).
w_attempts_matches_negated(w) ==
    /\ wpc[w] = "attempts"
    /\ attempts' = fetch_add(attempts, 1)
    /\ IF ~matches(matcher, pubkey[w])
       THEN wpc' = [wpc EXCEPT ![w] = "lock"] /\ UNCHANGED pubkey
       ELSE /\ wpc' = [wpc EXCEPT ![w] = "loop"]
            /\ pubkey' = [pubkey EXCEPT ![w] = <<>>]
    /\ UNCHANGED <<args, sample, mainpc, matcher, num_threads, found, results,
                   found_count, lock, current_count, generated,
                   vpc, current_attempts, total_attempts,
                   outcome, tvars>>

\* attempts.fetch_add(1), then the (thread-local) matcher test, which decides
\* whether the iteration goes on to results.lock() or back to the loop head.
w_attempts_matches(w) ==
    /\ wpc[w] = "attempts"
    /\ attempts' = fetch_add(attempts, 1)
    /\ IF matches(matcher, pubkey[w])
       THEN wpc' = [wpc EXCEPT ![w] = "lock"] /\ UNCHANGED pubkey
       ELSE /\ wpc' = [wpc EXCEPT ![w] = "loop"]
            /\ pubkey' = [pubkey EXCEPT ![w] = <<>>]
    /\ UNCHANGED <<args, sample, mainpc, matcher, num_threads, found, results,
                   found_count, lock, current_count, generated,
                   vpc, current_attempts, total_attempts,
                   outcome, tvars>>

w_lock(w) ==
    /\ wpc[w] = "lock"
    /\ lock = 0
    /\ lock' = w
    /\ wpc' = [wpc EXCEPT ![w] = "push"]
    /\ UNCHANGED <<args, sample, mainpc, matcher, num_threads, found, attempts, results,
                   found_count, pubkey, current_count, generated,
                   vpc, current_attempts, total_attempts,
                   outcome, tvars>>

\* the guard dropped right after the push, before the fetch_add.
w_push_drop_early(w) ==
    /\ wpc[w] = "push"
    /\ results' = push(results, pubkey[w])
    /\ pubkey' = [pubkey EXCEPT ![w] = <<>>]
    /\ lock' = 0
    /\ wpc' = [wpc EXCEPT ![w] = "found_count"]
    /\ UNCHANGED <<args, sample, mainpc, matcher, num_threads, found, attempts,
                   found_count, current_count, generated,
                   vpc, current_attempts, total_attempts,
                   outcome, tvars>>

\* the threshold re-checked inside the critical section: no append once
\* found_count has reached the target.
w_push_recheck(w) ==
    /\ wpc[w] = "push"
    /\ IF found_count >= args.count
       THEN /\ lock' = 0
            /\ wpc' = [wpc EXCEPT ![w] = "loop"]
            /\ UNCHANGED results
       ELSE /\ results' = push(results, pubkey[w])
            /\ wpc' = [wpc EXCEPT ![w] = "found_count"]
            /\ UNCHANGED lock
    /\ pubkey' = [pubkey EXCEPT ![w] = <<>>]
    /\ UNCHANGED <<args, sample, mainpc, matcher, num_threads, found, attempts,
                   found_count, current_count, generated,
                   vpc, current_attempts, total_attempts,
                   outcome, tvars>>

w_push(w) ==
    /\ wpc[w] = "push"
    /\ results' = push(results, pubkey[w])
    /\ pubkey' = [pubkey EXCEPT ![w] = <<>>]
    /\ wpc' = [wpc EXCEPT ![w] = "found_count"]
    /\ UNCHANGED <<args, sample, mainpc, matcher, num_threads, found, attempts,
                   found_count, lock, current_count, generated,
                   vpc, current_attempts, total_attempts,
                   outcome, tvars>>

w_found_count_fetch_add(w) ==
    /\ wpc[w] = "found_count"
    /\ found_count' = fetch_add(found_count, 1)
    /\ current_count' = [current_count EXCEPT ![w] = fetch_add(found_count, 1)]
    /\ wpc' = [wpc EXCEPT ![w] = "drop"]
    /\ UNCHANGED <<args, sample, mainpc, matcher, num_threads, found, attempts, results,
                   lock, pubkey, generated,
                   vpc, current_attempts, total_attempts,
                   outcome, tvars>>

\* no explicit drop: the guard lives to the end of the if block.
w_drop_at_scope_end(w) ==
    /\ wpc[w] = "drop"
    /\ wpc' = [wpc EXCEPT ![w] = "compare"]
    /\ UNCHANGED <<args, sample, mainpc, matcher, num_threads, found, attempts, results,
                   found_count, lock, pubkey, current_count, generated,
                   vpc, current_attempts, total_attempts, outcome, tvars>>

w_drop(w) ==
    /\ wpc[w] = "drop"
    /\ lock' = 0
    /\ wpc' = [wpc EXCEPT ![w] = "compare"]
    /\ UNCHANGED <<args, sample, mainpc, matcher, num_threads, found, attempts, results,
                   found_count, pubkey, current_count, generated,
                   vpc, current_attempts, total_attempts,
                   outcome, tvars>>

\* the flag written as the result of an equality test.
w_compare_store_eq(w) ==
    /\ wpc[w] = "compare"
    /\ IF reached_target(current_count[w], args.count)
       THEN found' = (current_count[w] = args.count)
       ELSE UNCHANGED found
    /\ current_count' = [current_count EXCEPT ![w] = 0]
    /\ wpc' = [wpc EXCEPT ![w] = "loop"]
    /\ UNCHANGED <<args, sample, mainpc, matcher, num_threads, attempts, results,
                   found_count, lock, pubkey, generated,
                   vpc, current_attempts, total_attempts,
                   outcome, tvars>>

\* the (thread-local) comparison of current_count with target_count and,
\* when it holds, found.store(true).
w_compare_store(w) ==
    /\ wpc[w] = "compare"
    /\ IF reached_target(current_count[w], args.count)
       THEN found' = TRUE
       ELSE UNCHANGED found
    /\ current_count' = [current_count EXCEPT ![w] = 0]
    /\ wpc' = [wpc EXCEPT ![w] = "loop"]
    /\ UNCHANGED <<args, sample, mainpc, matcher, num_threads, attempts, results,
                   found_count, lock, pubkey, generated,
                   vpc, current_attempts, total_attempts,
                   outcome, tvars>>

----------------------------------------------------------------------------
(* the verbose reporting thread *)

\* a reporting loop that never tests found.
v_load_found_ignored ==
    /\ vpc = "loop"
    /\ vpc' = "attempts"
    /\ UNCHANGED <<args, sample, mainpc, matcher, num_threads, found, attempts, results,
                   found_count, lock, wpc, pubkey, current_count, generated,
                   current_attempts, total_attempts, outcome, tvars>>

v_load_found ==
    /\ vpc = "loop"
    /\ vpc' = IF found THEN "done" ELSE "attempts"
    /\ UNCHANGED <<args, sample, mainpc, matcher, num_threads, found, attempts, results,
                   found_count, lock, wpc, pubkey, current_count, generated,
                   current_attempts, total_attempts,
                   outcome, tvars>>

\* attempts read with swap(0) instead of load.
v_load_attempts_swap ==
    /\ vpc = "attempts"
    /\ current_attempts' = attempts
    /\ attempts' = 0
    /\ vpc' = "found_count"
    /\ UNCHANGED <<args, sample, mainpc, matcher, num_threads, found, results,
                   found_count, lock, wpc, pubkey, current_count, generated,
                   total_attempts, outcome, tvars>>

v_load_attempts ==
    /\ vpc = "attempts"
    /\ current_attempts' = attempts
    /\ vpc' = "found_count"
    /\ UNCHANGED <<args, sample, mainpc, matcher, num_threads, found, attempts, results,
                   found_count, lock, wpc, pubkey, current_count, generated,
                   total_attempts, outcome, tvars>>

\* found_count.load(), then the status line is printed from the two values
\* read (thread-local work) and the locals of the loop body go out of scope.
v_load_found_count_print ==
    /\ vpc = "found_count"
    /\ sample' = IF sample = NotKept THEN NotKept
                 ELSE <<current_attempts, found_count>>
    /\ current_attempts' = 0
    /\ vpc' = "loop"
    /\ UNCHANGED <<args, mainpc, matcher, num_threads, found, attempts, results,
                   found_count, lock, wpc, pubkey, current_count, generated,
                   total_attempts, outcome, tvars>>

----------------------------------------------------------------------------

Next ==
    \/ m_validate_count
    \/ m_new_matcher
    \/ m_build_pool
    \/ m_spawn_verbose
    \/ m_par_iter
    \/ m_for_each_return
    \/ m_join_verbose
    \/ m_load_attempts
    \/ m_lock_results
    \/ m_report
    \/ \E w \in Workers : w_load_found(w)
    \/ \E w \in Workers : w_keypair_new(w)
    \/ \E w \in Workers : w_attempts_matches(w)
    \/ \E w \in Workers : w_lock(w)
    \/ \E w \in Workers : w_push(w)
    \/ \E w \in Workers : w_found_count_fetch_add(w)
    \/ \E w \in Workers : w_drop(w)
    \/ \E w \in Workers : w_compare_store(w)
    \/ v_load_found
    \/ v_load_attempts
    \/ v_load_found_count_print

Spec == Init /\ [][Next]_vars

MainNext ==
    \/ m_validate_count
    \/ m_new_matcher
    \/ m_build_pool
    \/ m_spawn_verbose
    \/ m_par_iter
    \/ m_for_each_return
    \/ m_join_verbose
    \/ m_load_attempts
    \/ m_lock_results
    \/ m_report

WorkerNext(w) ==
    \/ w_load_found(w)
    \/ w_keypair_new(w)
    \/ w_attempts_matches(w)
    \/ w_lock(w)
    \/ w_push(w)
    \/ w_found_count_fetch_add(w)
    \/ w_drop(w)
    \/ w_compare_store(w)

SamplerNext ==
    \/ v_load_found
    \/ v_load_attempts
    \/ v_load_found_count_print

\* Every thread that can take a step eventually takes one: main, each pool
\* thread running an iteration, and the reporting thread are OS threads.
InitFair ==
    /\ Init
    /\ args \in FairArgs

FairSpec ==
    /\ InitFair
    /\ [][Next]_vars
    /\ WF_vars(MainNext)
    /\ \A w \in Workers : WF_vars(WorkerNext(w))
    /\ WF_vars(SamplerNext)

\* A verbose run with an accepted pattern, the terminal modelled.
InitSampled ==
    /\ args \in SampledArgs
    /\ sample = <<0, 0>>
    /\ mainpc = "validate_count"
    /\ matcher = NoMatcher
    /\ RunIdle
    /\ t_pc = "off"
    /\ t_address = <<>>
    /\ t_matched = FALSE
    /\ t_again = NoMatcher

SpecSampled ==
    /\ InitSampled
    /\ [][Next]_vars
    /\ WF_vars(MainNext)
    /\ \A w \in Workers : WF_vars(WorkerNext(w))
    /\ WF_vars(SamplerNext)

----------------------------------------------------------------------------
(* VanityMatcher on its own: new, then matches on one address *)

InitMatcher ==
    /\ args \in TestArgs
    /\ sample = NotKept
    /\ mainpc = "off"
    /\ matcher = NoMatcher
    /\ RunIdle
    /\ t_pc = "new"
    /\ t_address = <<>>
    /\ t_matched = FALSE
    /\ t_again = NoMatcher

t_new ==
    /\ t_pc = "new"
    /\ matcher' = VanityMatcher_new(args.prefix, args.suffix, args.case_sensitive)
    /\ t_pc' = IF matcher'.ok THEN "matches" ELSE "err"
    /\ UNCHANGED <<args, runvars, t_address, t_matched, t_again>>

t_matches ==
    /\ t_pc = "matches"
    /\ \E a \in TestAddresses :
          /\ t_address' = a
          /\ t_matched' = matches(matcher, a)
    /\ t_pc' = "done"
    /\ UNCHANGED <<args, runvars, matcher, t_again>>

\* new applied to the prefix and suffix that the first new stored.
t_new_again ==
    /\ t_pc = "matches"
    /\ t_again' = VanityMatcher_new(matcher.prefix, matcher.suffix,
                                   matcher.case_sensitive)
    /\ t_pc' = "again"
    /\ UNCHANGED <<args, runvars, matcher, t_address, t_matched>>

NextMatcher ==
    \/ t_new
    \/ t_matches
    \/ t_new_again

SpecMatcher == InitMatcher /\ [][NextMatcher]_vars

----------------------------------------------------------------------------
(* Properties of the search (Spec) *)

Started == mainpc \in {"for_each", "join_verbose", "load_attempts",
                       "lock_results", "report", "done"}

\* C1: for count k >= 1 and at least one worker, whenever every worker has
\* left its loop, results holds at least k keypairs.
C1_CompletedHasTarget ==
    (Started /\ args.count >= 1 /\ num_threads >= 1 /\ AllWorkersDone)
        => Len(results) >= args.count

C1_Witness ==
    /\ mainpc = "done"
    /\ num_threads >= 2
    /\ args.count >= 2
    /\ Len(results) = args.count

\* C2: whenever no worker holds the results lock, found_count equals the
\* length of results.
C2_FoundCountIsLength ==
    lock \notin Workers => found_count = Len(results)

C2_Witness ==
    /\ lock = 0
    /\ found_count = 2
    /\ \E w \in Workers : wpc[w] = "compare" /\ current_count[w] = 2
    /\ \E w \in Workers : wpc[w] = "lock"

\* C3: found (terminated) implies found_count >= count, and found changes
\* only by the store of a worker whose own fetch_add returned a count that
\* reached the target.
C3_FoundOnlyAfterTarget ==
    /\ [](found => found_count >= args.count)
    /\ [][found' # found =>
            \E w \in Workers :
                /\ wpc[w] = "compare"
                /\ wpc'[w] = "loop"
                /\ current_count[w] >= args.count
                /\ found']_vars

C3_Witness ==
    /\ found
    /\ args.count = 2
    /\ found_count = 2
    /\ \E w \in Workers : wpc[w] = "keypair"

\* C4: in every step attempts and found_count do not decrease and found
\* does not go from true to false.
C4_Monotonic ==
    [][/\ attempts' >= attempts
       /\ found_count' >= found_count
       /\ (found => found')]_vars

C4_Witness ==
    /\ found
    /\ \E w \in Workers : wpc[w] = "compare" /\ current_count[w] > args.count
    /\ attempts >= 2

\* C5: a worker that passed the found check still appends its match when it
\* gets the lock, whatever found and found_count are by then; with two or
\* more workers this gives completed runs with more than count results.
C5_AppendAfterCheck ==
    [][\A w \in Workers :
          (wpc[w] = "push" /\ wpc'[w] # "push")
              => /\ results' = Append(results, pubkey[w])
                 /\ wpc'[w] = "found_count"]_vars

C5_Witness ==
    /\ mainpc = "done"
    /\ outcome = "found"
    /\ num_threads >= 2
    /\ Len(results) > args.count

\* C6: attempts >= found_count in every reachable state.
C6_AttemptsCoverFound == attempts >= found_count

C6_Witness ==
    /\ attempts = found_count
    /\ found_count >= 2
    /\ \E w \in Workers : wpc[w] = "drop"

\* C7: each generated candidate is counted exactly once: attempts is the
\* number of keypairs generated minus those whose fetch_add is still to come,
\* and once main has read total_attempts every worker has left its loop,
\* total_attempts is the number of keypairs generated and attempts stays at
\* that value.
PendingAttempts == Cardinality({w \in Workers : wpc[w] = "attempts"})

C7_AttemptAccounting ==
    /\ attempts = generated - PendingAttempts
    /\ mainpc \in {"lock_results", "report", "done"}
          => /\ AllWorkersDone
             /\ total_attempts = generated
             /\ attempts = total_attempts

C7_Witness ==
    /\ mainpc = "done"
    /\ num_threads >= 2
    /\ total_attempts >= 3
    /\ Len(results) < total_attempts

\* C8: every identifier in results is accepted by the matcher.
C8_ResultsMatch ==
    \A i \in 1..Len(results) : matcher.ok /\ matches(matcher, results[i])

C8_Witness ==
    /\ mainpc = "done"
    /\ ~args.case_sensitive
    /\ Len(results) >= 2
    /\ results[1] # results[2]
    /\ attempts > Len(results)

----------------------------------------------------------------------------
(* Properties of the matcher (SpecMatcher) *)

Fold(s) == IF args.case_sensitive THEN s ELSE to_lowercase(s)

IsPrefixOf(p, s) == Len(p) <= Len(s) /\ \A i \in 1..Len(p) : s[i] = p[i]

IsSuffixOf(p, s) ==
    Len(p) <= Len(s) /\ \A i \in 1..Len(p) : s[Len(s) - Len(p) + i] = p[i]

\* C9: for a constructed pattern, matches is true iff each present anchor is
\* a prefix (suffix) of the identifier, the raw pattern and the identifier
\* both lower-cased when the pattern is case-insensitive, neither otherwise.
C9_MatchesIffAnchors ==
    t_pc = "done" =>
        (t_matched <=>
            /\ (~args.prefix.some
                    \/ IsPrefixOf(Fold(args.prefix.val), Fold(t_address)))
            /\ (~args.suffix.some
                    \/ IsSuffixOf(Fold(args.suffix.val), Fold(t_address))))

C9_Witness ==
    /\ t_pc = "done"
    /\ ~args.case_sensitive
    /\ args.prefix = Some(<<"A">>)
    /\ args.suffix = Some(<<"L">>)
    /\ t_address = <<"a", "L">>
    /\ t_matched

LegalAlphabet ==
    ({"1","2","3","4","5","6","7","8","9"}
        \cup {UpperLetters[i] : i \in 1..26}
        \cup {LowerLetters[i] : i \in 1..26})
    \ {"I", "O", "l"}

HasIllegal(o) == o.some /\ \E i \in 1..Len(o.val) : o.val[i] \notin LegalAlphabet
IsEmpty(o) == o.some /\ Len(o.val) = 0
NoPatternSpecified == ~args.prefix.some /\ ~args.suffix.some
EmptyPattern == IsEmpty(args.prefix) \/ IsEmpty(args.suffix)
IllegalCharacter == HasIllegal(args.prefix) \/ HasIllegal(args.suffix)

ErrNoPattern == {"At least one of --prefix or --suffix must be specified"}
ErrEmpty == {"Prefix cannot be empty", "Suffix cannot be empty"}
ErrIllegal == {"Invalid Base58 character in prefix",
               "Invalid Base58 character in suffix"}

\* C10: construction fails exactly when no pattern is given, a given pattern
\* is empty, or a given pattern has a character outside the 58-symbol
\* alphabet; the error reported is one whose condition holds.
C10_ConstructionFailsExactly ==
    t_pc \in {"matches", "err", "done"} =>
        /\ Cardinality(LegalAlphabet) = 58
        /\ ~matcher.ok <=> (NoPatternSpecified \/ EmptyPattern \/ IllegalCharacter)
        /\ matcher.ok => t_pc # "err"
        /\ ~matcher.ok =>
              /\ t_pc = "err"
              /\ matcher.err[1] \in ErrNoPattern \cup ErrEmpty \cup ErrIllegal
              /\ matcher.err[1] \in ErrNoPattern => NoPatternSpecified
              /\ matcher.err[1] \in ErrEmpty => EmptyPattern
              /\ matcher.err[1] \in ErrIllegal =>
                    /\ IllegalCharacter
                    /\ matcher.err[2] \notin LegalAlphabet

C10_Witness ==
    /\ t_pc = "err"
    /\ args.prefix = Some(<<"A">>)
    /\ args.suffix = Some(<<"a", "l">>)
    /\ matcher.err = <<"Invalid Base58 character in suffix", "l">>

\* C11: for every accepted raw pattern, new applied to the stored prefix and
\* suffix with the same case_sensitive succeeds and gives the same matcher.
C11_Idempotent ==
    t_pc = "again" => (t_again.ok /\ t_again = matcher)

StoredLegal(o) ==
    o.some => /\ Len(o.val) > 0
              /\ \A i \in 1..Len(o.val) : o.val[i] \in LegalAlphabet

\* C12: every matcher that new returns has a prefix or a suffix, and each
\* stored string is non-empty and made of characters of the 58-symbol
\* alphabet.
C12_PatternInvariant ==
    (t_pc \in {"matches", "again", "done"} /\ matcher.ok)
        => /\ matcher.prefix.some \/ matcher.suffix.some
           /\ StoredLegal(matcher.prefix)
           /\ StoredLegal(matcher.suffix)

----------------------------------------------------------------------------
(* Properties of main and of the reporting thread (Spec) *)

BadConfig ==
    args.count = 0 \/ NoPatternSpecified \/ EmptyPattern \/ IllegalCharacter

NoSearch ==
    /\ \A w \in Workers : wpc[w] = "idle"
    /\ vpc = "none"
    /\ attempts = 0
    /\ generated = 0
    /\ found_count = 0
    /\ results = <<>>
    /\ ~found

\* C13: with count zero or a pattern that new rejects, main goes no further
\* than the two validations and exits with an error; no worker and no
\* reporting thread is started and the shared state stays as constructed.
C13_ErrorsStopBeforeSearch ==
    /\ BadConfig =>
          /\ mainpc \in {"validate_count", "new_matcher", "exit1"}
          /\ NoSearch
    /\ mainpc = "exit1" <=> outcome = "error"
    /\ mainpc = "exit1" => BadConfig

C13_Witness ==
    /\ mainpc = "exit1"
    /\ outcome = "error"
    /\ args.count >= 1
    /\ args.verbose
    /\ args.threads.some /\ args.threads.val >= 2
    /\ args.prefix = Some(<<"l">>)
    /\ NoSearch

SamplerStep == vpc' # vpc \/ current_attempts' # current_attempts

\* C14: a step of the reporting thread leaves found, attempts, found_count,
\* results and everything else the workers and main read or write unchanged.
C14_SamplerObservesOnly ==
    [][SamplerStep /\ vpc # "none" =>
          UNCHANGED <<found, attempts, found_count, results, lock, wpc,
                      pubkey, current_count, generated, matcher, args,
                      mainpc, num_threads, total_attempts, outcome>>]_vars

C14_Witness ==
    /\ vpc = "found_count"
    /\ current_attempts >= 2
    /\ found_count >= 1
    /\ ~found

----------------------------------------------------------------------------
(* Termination (FairSpec) *)

\* C15: once found_count has reached count, found eventually becomes true,
\* every worker leaves its loop (none stays waiting for the lock) and main
\* returns.
C15_TargetLeadsToReturn ==
    (args.count >= 1 /\ found_count >= args.count)
        ~> (found /\ AllWorkersDone /\ lock = 0 /\ mainpc = "done")

C15_Witness ==
    /\ mainpc = "done"
    /\ found
    /\ args.verbose
    /\ vpc = "done"
    /\ num_threads >= 2
    /\ found_count >= args.count

----------------------------------------------------------------------------
(* Overshoot, lock discipline and quiescence (Spec) *)

\* C16: results never holds more than count + num_threads - 1 keypairs, and
\* a completed run with one worker holds exactly count.
C16_OvershootBounded ==
    Started =>
        /\ Len(results) <= args.count + num_threads - 1
        /\ (num_threads = 1 /\ AllWorkersDone) => Len(results) = args.count

C16_Witness ==
    /\ mainpc = "report"
    /\ num_threads >= 2
    /\ Len(results) = args.count + num_threads - 1

InCritical(w) == wpc[w] \in {"push", "found_count", "drop"}

\* C17: the results lock is held by at most one worker, exactly while that
\* worker is between lock() and drop(): not while it generates a keypair or
\* runs the matcher, and no longer when it compares the count and stores
\* found.
C17_LockDiscipline ==
    /\ [](/\ Cardinality({w \in Workers : InCritical(w)}) <= 1
          /\ \A w \in Workers : (lock = w) <=> InCritical(w)
          /\ \A w \in Workers :
                wpc[w] \in {"loop", "keypair", "attempts", "lock", "compare",
                            "done"}
                    => lock # w)
    /\ [][\A w \in Workers :
            (found' # found /\ wpc'[w] # wpc[w]) => (lock # w /\ lock' # w)]_vars

C17_Witness ==
    \E w, v \in Workers :
        /\ lock = w
        /\ wpc[w] = "found_count"
        /\ wpc[v] = "lock"
        /\ ~found

Rank(pc) ==
    CASE pc = "idle" -> 0
      [] pc = "keypair" -> 1
      [] pc = "attempts" -> 2
      [] pc = "lock" -> 3
      [] pc = "push" -> 4
      [] pc = "found_count" -> 5
      [] pc = "drop" -> 6
      [] pc = "compare" -> 7
      [] pc = "loop" -> 8
      [] pc = "done" -> 9

Moved == {w \in Workers : wpc'[w] # wpc[w]}

SharedWritten ==
    \/ attempts' # attempts
    \/ found_count' # found_count
    \/ results' # results
    \/ found' # found
    \/ generated' # generated

\* C18: once found is true every worker only moves forward through the rest
\* of its current iteration to the loop test and out, so it generates at most
\* one more keypair, adds at most one to attempts and appends at most once;
\* a worker that has left its loop stays out, and the shared state is written
\* only by the step of one worker that is still in its loop.
C18_QuiescenceWithinOneCycle ==
    [][/\ \A w \in Workers :
            /\ (found /\ wpc'[w] # wpc[w]) => Rank(wpc'[w]) > Rank(wpc[w])
            /\ wpc[w] = "done" => wpc'[w] = "done"
       /\ SharedWritten =>
            /\ Cardinality(Moved) = 1
            /\ \A w \in Moved : wpc[w] \notin {"idle", "done"}
            /\ generated' <= generated + 1
            /\ attempts' <= attempts + 1
            /\ Len(results') <= Len(results) + 1]_vars

C18_Witness ==
    /\ found
    /\ \E w \in Workers : wpc[w] = "push"
    /\ \E w \in Workers : wpc[w] = "done"

----------------------------------------------------------------------------
(* The reporting thread (SpecSampled) *)

VRank(pc) ==
    CASE pc = "none" -> 0
      [] pc = "attempts" -> 1
      [] pc = "found_count" -> 2
      [] pc = "loop" -> 3
      [] pc = "done" -> 4

\* C19: once found is true the reporting thread only moves forward to its
\* loop test and out, so it prints at most one more status line, and it
\* does terminate; main gets past the join only when every worker and the
\* reporting thread have exited; each status line printed has attempts and
\* found values no smaller than the line before.
C19_SamplerExits ==
    /\ [][/\ (found /\ vpc' # vpc) => VRank(vpc') > VRank(vpc)
          /\ vpc = "done" => vpc' = "done"
          /\ sample' # sample =>
                /\ vpc = "found_count" /\ vpc' = "loop"
                /\ sample'[1] >= sample[1]
                /\ sample'[2] >= sample[2]]_vars
    /\ [](mainpc \in {"load_attempts", "lock_results", "report", "done"}
            => (AllWorkersDone /\ vpc = "done"))
    /\ (found /\ vpc # "none") ~> (vpc = "done")
    /\ (found /\ vpc # "none") ~> (mainpc = "done")

C19_Witness ==
    /\ found
    /\ vpc = "loop"
    /\ sample[1] >= 2
    /\ sample[2] >= 1
    /\ sample[2] = found_count
    /\ sample[1] < attempts

----------------------------------------------------------------------------
(* Outcome of an accepted run (Spec) *)

SearchBegun == mainpc \in {"spawn_verbose", "par_iter", "for_each",
                           "join_verbose", "load_attempts", "lock_results",
                           "report", "done"}

\* main waits in handle.join() while no iteration is in its loop and found
\* is false: nothing can set found, so the reporting thread never exits.
BlockedWithNoWorker ==
    /\ mainpc = "join_verbose"
    /\ vpc \notin {"none", "done"}
    /\ AllWorkersDone
    /\ ~found

\* C20: once the search has begun, main never reports an empty result set
\* ("Search interrupted"), a finished run holds at least count results, and
\* main never waits forever with no worker running.
C20_CompletesOrKeepsSearching ==
    SearchBegun =>
        /\ outcome # "interrupted"
        /\ mainpc = "done" => (results # <<>> /\ Len(results) >= args.count)
        /\ ~BlockedWithNoWorker

====
